---- MODULE Spec2Model ----
(***************************************************************************)
(* State-machine model of the West Highland Way map pipeline:              *)
(*   utils.py        filter_and_smooth_geometries, stylize_natural_...     *)
(*   extract.py      extract_kml_segments                                  *)
(*   generate_map.py classify and the composer script                      *)
(*                                                                         *)
(* Geometry is modelled on a line of unit cells: a geometry is a finite    *)
(* set of integer cells, a polygon is a run of adjacent cells, a           *)
(* MultiPolygon is a set with several runs.  Area is the number of cells   *)
(* (1 cell = 1 m2 in the metric frame), buffer(d) is dilation by d cells   *)
(* (erosion for d < 0), unary_union is set union.                          *)
(***************************************************************************)
EXTENDS Integers, Sequences, FiniteSets, TLC

VARIABLES
    gdf,                    \* utils: the input feature collection
    area_threshold_m2,      \* utils: parameter
    proximity_threshold_m,  \* utils: parameter (stylize only)
    smooth_strength_m,      \* utils: parameter
    fs_out,                 \* result of filter_and_smooth_geometries
    st_out,                 \* result of stylize_natural_geometries
    kml,                    \* extract: the Placemark elements of the document
    segment_slice,          \* extract: parameter (start, end)
    save_csv,               \* extract: parameter
    kml_out,                \* result of extract_kml_segments
    row,                    \* classify: the OSM tags of one feature
    category,               \* classify: the value returned for row
    pc,                     \* composer: the statement the script is at
    files,                  \* composer: the files that exist on disk
    fetches,                \* composer: OSM fetches attempted, per layer
    fetch_failed,           \* composer: layers whose fetch raised
    cache_at_load,          \* composer: was the cache there when loaded
    canvas,                 \* composer: the layers added to ax, in order
    output_written          \* composer: savefig has written the PDF

utilsVars == <<gdf, area_threshold_m2, proximity_threshold_m, smooth_strength_m,
               fs_out, st_out>>
extractVars == <<kml, segment_slice, save_csv, kml_out>>

classifyVars == <<row, category>>
composeVars == <<pc, files, fetches, fetch_failed, cache_at_load, canvas, output_written>>

vars == <<utilsVars, extractVars, classifyVars, composeVars>>

None == "None"

\* The value of a result variable before the function has been called.
NotCalled == [status |-> "none", crs |-> None, columns |-> {}, rows |-> <<>>]
ExtractNotCalled == [status |-> "none", segments |-> <<>>, points |-> <<>>, csv |-> {}]

\* ------------------------------------------------------------------ bounds
MaxCoord == 2        \* source features lie in cells 0..MaxCoord
MaxRows == 2         \* rows of an input feature collection
MaxThreshold == 2    \* area_threshold_m2 ranges over 0..MaxThreshold
MaxBuffer == 1       \* buffer distances range over 0..MaxBuffer
MaxPlacemarks == 3   \* Placemark elements of a KML document
MaxTuples == 3       \* coordinate tuples of a placemark
MaxSlice == 2        \* segment_slice bounds range over 0..MaxSlice

\* ------------------------------------------------------- helper operators
Min(S) == CHOOSE x \in S : \A y \in S : x <= y
Max(S) == CHOOSE x \in S : \A y \in S : x >= y

RECURSIVE SeqsUpTo(_, _)
SeqsUpTo(S, n) ==
    IF n = 0 THEN {<<>>}
    ELSE LET shorter == SeqsUpTo(S, n - 1)
         IN  shorter \cup {Append(s, x) : s \in {t \in shorter : Len(t) = n - 1}, x \in S}

\* --------------------------------------------------------------- geometry
INPUT_CRS == "EPSG:4326"
WORKING_CRS == "EPSG:3857"

\* The two frames name the same cell by different coordinates.
CrsOffset == MaxCoord + 1

Reproject(g, from, to) ==
    IF from = to THEN g
    ELSE IF to = WORKING_CRS THEN {x + CrsOffset : x \in g}
    ELSE {x - CrsOffset : x \in g}

\* GeoDataFrame.to_crs: every geometry reprojected, other columns kept.
to_crs(df, crs) ==
    [df EXCEPT
        !.crs = crs,
        !.rows = [i \in 1..Len(df.rows) |->
                    [df.rows[i] EXCEPT
                        !.geometry = Reproject(df.rows[i].geometry, df.crs, crs)]]]

\* GeoSeries.area
area(g) == Cardinality(g)

\* shapely buffer: dilation for d >= 0, erosion for d < 0
buffer(g, d) ==
    IF d >= 0
    THEN UNION {(y - d)..(y + d) : y \in g}
    ELSE {x \in g : \A k \in (x + d)..(x - d) : k \in g}

unary_union(gs) == UNION gs

\* The parts of a (Multi)Polygon: the maximal runs of adjacent cells.
geoms(g) ==
    LET starts == {x \in g : (x - 1) \notin g}
        runEnd(s) == Min({y \in g : y >= s /\ (y + 1) \notin g})
    IN  {s..runEnd(s) : s \in starts}

isMultiPolygon(g) == Cardinality(geoms(g)) > 1

\* simplify(tol, preserve_topology=True): every part keeps its two end
\* vertices (Douglas-Peucker never drops the ends of a line), parts are
\* neither merged nor dropped.
simplify(g, tol) == UNION {Min(p)..Max(p) : p \in geoms(g)}

\* The parts of g as a sequence, in coordinate order.
RECURSIVE geomsSeq(_)
geomsSeq(g) ==
    IF g = {} THEN <<>>
    ELSE LET first == CHOOSE p \in geoms(g) : Min(p) = Min(g)
         IN  <<first>> \o geomsSeq(g \ first)

\* ------------------------------------------------------------------ utils
SIMPLIFY_FACTOR_FILTER == 3
SIMPLIFY_FACTOR_STYLIZE == 2

\* Mutants of the area test: the cutoff made inclusive, the cutoff dropped.
KeepRow_inclusive(a, threshold) == a >= threshold
KeepRow_all(a, threshold) == TRUE

\* gdf_m[gdf_m["area_m2"] > area_threshold_m2]
KeepRow(a, threshold) == a > threshold

\* The rows of df with their area column set, as utils.py lines 40 and 94 do.
WithArea(df) ==
    [df EXCEPT
        !.columns = @ \cup {"area_m2"},
        !.rows = [i \in 1..Len(df.rows) |->
                    [id |-> df.rows[i].id,
                     category |-> df.rows[i].category,
                     geometry |-> df.rows[i].geometry,
                     area_m2 |-> area(df.rows[i].geometry)]]]

\* Boolean-mask selection: the rows whose mask is true, in order.
FilterByArea(df, threshold) ==
    [df EXCEPT !.rows = SelectSeq(df.rows, LAMBDA r : KeepRow(r.area_m2, threshold))]

filter_and_smooth_geometries(df, threshold, smooth, factor, input_crs, working_crs) ==
    LET gdf_m == WithArea(to_crs(df, working_crs))
        gdf_filtered == FilterByArea(gdf_m, threshold)
        smoothed == [gdf_filtered EXCEPT
                        !.rows = [i \in 1..Len(gdf_filtered.rows) |->
                            [gdf_filtered.rows[i] EXCEPT
                                !.geometry = simplify(buffer(buffer(@, smooth), -smooth), factor)]]]
    IN  [status |-> "ok", crs |-> input_crs, columns |-> smoothed.columns,
         rows |-> to_crs(smoothed, input_crs).rows]

\* for cat, group in gdf.groupby("category"): keys in sorted order
CategoryOrder == <<"forest", "grass", "other">>

\* Mutant: the group is every row, whatever its category.
GroupOf_anyCategory(df, cat) == df.rows

\* group: the rows of df whose category is cat, in order
GroupOf(df, cat) == SelectSeq(df.rows, LAMBDA r : r.category = cat)

\* Mutant: "other" is processed like the rest.
ProcessCategory_all(cat) == TRUE

\* if cat != "other"
ProcessCategory(cat) == cat # "other"

\* Mutant: the group is fused without the proximity buffer.
BufferedGroup_unbuffered(group, prox) == {group[i].geometry : i \in 1..Len(group)}

\* buffered = group.geometry.buffer(proximity_threshold_m)
BufferedGroup(group, prox) == {buffer(group[i].geometry, prox) : i \in 1..Len(group)}

\* if smooth_strength_m > 0: fused = fused.buffer(smooth_strength_m)
Smooth(fused, smooth) == IF smooth > 0 THEN buffer(fused, smooth) ELSE fused

\* The rows one category appends to final_geoms (utils.py lines 101-122).
CategoryRows(df, cat, prox, smooth, factor) ==
    LET group == GroupOf(df, cat)
        fused == Smooth(unary_union(BufferedGroup(group, prox)), smooth)
        simplified == simplify(fused, factor)
        parts == geomsSeq(simplified)
    IN  IF Len(group) = 0 \/ ~ProcessCategory(cat) THEN <<>>
        ELSE IF isMultiPolygon(simplified)
             THEN [i \in 1..Len(parts) |-> [category |-> cat, geometry |-> parts[i]]]
             ELSE <<[category |-> cat, geometry |-> simplified]>>

RECURSIVE FinalGeoms(_, _, _, _, _)
FinalGeoms(df, k, prox, smooth, factor) ==
    IF k > Len(CategoryOrder) THEN <<>>
    ELSE CategoryRows(df, CategoryOrder[k], prox, smooth, factor)
            \o FinalGeoms(df, k + 1, prox, smooth, factor)

\* What a raised exception leaves the caller with.
Raised == [status |-> "error", crs |-> None, columns |-> {}, rows |-> <<>>]

\* gpd.GeoDataFrame(list_of_dicts, crs=...): the columns are the keys of the
\* dicts.  An empty list gives a frame with no column at all, and geopandas
\* refuses a crs for a frame without a geometry column (ValueError).
GeoDataFrame(records, crs) ==
    IF Len(records) = 0 THEN Raised
    ELSE [status |-> "ok", crs |-> crs,
          columns |-> {"category", "geometry"}, rows |-> records]

stylize_natural_geometries(df, threshold, prox, smooth, factor, input_crs, working_crs) ==
    LET gdf_w == FilterByArea(WithArea(to_crs(df, working_crs)), threshold)
        final_geoms == FinalGeoms(gdf_w, 1, prox, smooth, factor)
        gdf_result == GeoDataFrame(final_geoms, working_crs)
    IN  IF gdf_result.status = "error" THEN gdf_result
        ELSE to_crs(gdf_result, input_crs)

\* ----------------------------------------------------- inputs of utils.py
Categories == {"forest", "grass", "other"}

\* A source feature is one polygon: a run of cells lo..hi.
Polygons == {lo..hi : lo \in 0..MaxCoord, hi \in 0..MaxCoord} \ {{}}

Features == [category : Categories, geometry : Polygons]

Collection(fs) ==
    [crs |-> INPUT_CRS,
     columns |-> {"natural", "landuse", "category", "geometry"},
     rows |-> [i \in 1..Len(fs) |->
                [id |-> i, category |-> fs[i].category, geometry |-> fs[i].geometry]]]

Collections == {Collection(fs) : fs \in SeqsUpTo(Features, MaxRows)}

AreaThresholds == 0..MaxThreshold
BufferDistances == 0..MaxBuffer

Layers == {"nature", "lakes"}

\* The composer and classify are not running.
ComposeIdle ==
    /\ pc = "idle"
    /\ files = {}
    /\ fetches = [l \in Layers |-> 0]
    /\ fetch_failed = {}
    /\ cache_at_load = [l \in Layers |-> "unknown"]
    /\ canvas = <<>>
    /\ output_written = FALSE

ClassifyIdle ==
    /\ row = [natural |-> None, landuse |-> None, landcover |-> None]
    /\ category = None

\* The extractor is not part of a run of utils.py.
ExtractIdle ==
    /\ kml = <<>>
    /\ segment_slice = <<0, 0>>
    /\ save_csv = FALSE
    /\ kml_out = ExtractNotCalled

InitUtils ==
    /\ ExtractIdle
    /\ ClassifyIdle
    /\ ComposeIdle
    /\ gdf \in Collections
    /\ area_threshold_m2 \in AreaThresholds
    /\ smooth_strength_m \in BufferDistances
    /\ fs_out = NotCalled
    /\ st_out = NotCalled

InitFilter ==
    /\ InitUtils
    /\ proximity_threshold_m = 0

InitStylize ==
    /\ InitUtils
    /\ proximity_threshold_m \in BufferDistances

CallFilterAndSmooth ==
    /\ fs_out = NotCalled
    /\ fs_out' = filter_and_smooth_geometries(gdf, area_threshold_m2,
                    smooth_strength_m, SIMPLIFY_FACTOR_FILTER, INPUT_CRS, WORKING_CRS)
    /\ UNCHANGED <<gdf, area_threshold_m2, proximity_threshold_m, smooth_strength_m, st_out>>
    /\ UNCHANGED <<extractVars, classifyVars, composeVars>>

CallStylize ==
    /\ st_out = NotCalled
    /\ st_out' = stylize_natural_geometries(gdf, area_threshold_m2,
                    proximity_threshold_m, smooth_strength_m,
                    SIMPLIFY_FACTOR_STYLIZE, INPUT_CRS, WORKING_CRS)
    /\ UNCHANGED <<gdf, area_threshold_m2, proximity_threshold_m, smooth_strength_m, fs_out>>
    /\ UNCHANGED <<extractVars, classifyVars, composeVars>>

NextFilter == CallFilterAndSmooth
NextStylize == CallStylize

SpecFilter == InitFilter /\ [][NextFilter]_vars
SpecStylize == InitStylize /\ [][NextStylize]_vars

\* ---------------------------------------------------------------- extract
\* A Placemark element: name is its <name> text or None when it has no
\* <name> child; hasCoordinates tells whether it has a <coordinates>
\* descendant with a text; coordinates is that text as the sequence of its
\* whitespace-separated tokens, each token the sequence of its
\* comma-separated fields.

\* float(field): the number a numeric field denotes; ValueError otherwise.
IsNumeric(field) == \E n \in 0..(MaxPlacemarks + MaxTuples + 1) : ToString(n) = field
float(field) == CHOOSE n \in 0..(MaxPlacemarks + MaxTuples + 1) : ToString(n) = field

\* tuple(map(float, coord.strip().split(",")))
ParseCoord(token) == [k \in 1..Len(token) |-> float(token[k])]

\* Whether parsing a placemark raises: no coordinates text (AttributeError)
\* or a field that is no number (ValueError).
PlacemarkRaises(pm) ==
    \/ ~pm.hasCoordinates
    \/ \E j \in 1..Len(pm.coordinates) :
          \E k \in 1..Len(pm.coordinates[j]) : ~IsNumeric(pm.coordinates[j][k])

\* The dict appended to `segments` for one placemark (extract.py 31-45).
ParsePlacemark(pm, index) ==
    [index |-> index,
     Name |-> IF pm.name # None THEN pm.name ELSE "Unnamed",
     Coordinates |-> [j \in 1..Len(pm.coordinates) |-> ParseCoord(pm.coordinates[j])]]

\* Mutant: a single coordinate tuple also counts as a segment.
IsSegment_fromOne(x) == Len(x) >= 1

\* lambda x: len(x) == 1 and lambda x: len(x) > 1
IsPoint(x) == Len(x) = 1
IsSegment(x) == Len(x) > 1

\* Python's seq[a:b] for integers a, b.
PySlice(seq, a, b) ==
    LET n == Len(seq)
        clamp(i) == IF i < 0 THEN (IF n + i < 0 THEN 0 ELSE n + i)
                    ELSE (IF i > n THEN n ELSE i)
        start == clamp(a)
        stop == clamp(b)
    IN  IF stop <= start THEN <<>> ELSE SubSeq(seq, start + 1, stop)

ExtractRaised == [status |-> "error", segments |-> <<>>, points |-> <<>>, csv |-> {}]

extract_kml_segments(doc, slice, save) ==
    IF \E i \in 1..Len(doc) : PlacemarkRaises(doc[i]) THEN ExtractRaised
    \* pd.DataFrame([]) has no "Coordinates" column: KeyError
    ELSE IF Len(doc) = 0 THEN ExtractRaised
    ELSE LET segments_df == [i \in 1..Len(doc) |-> ParsePlacemark(doc[i], i)]
             points_df == SelectSeq(segments_df, LAMBDA r : IsPoint(r.Coordinates))
             multi_df == SelectSeq(segments_df, LAMBDA r : IsSegment(r.Coordinates))
             sliced == PySlice(multi_df, slice[1], slice[2])
         IN  [status |-> "ok", segments |-> sliced, points |-> points_df,
              csv |-> IF save THEN {"points.csv", "segments.csv"} ELSE {}]

\* ---------------------------------------------------- inputs of extract.py
\* The coordinates text of the i-th placemark with n well-formed tuples:
\* tuple j reads "i,j".
CoordText(i, n) == [j \in 1..n |-> <<ToString(i), ToString(j)>>]

\* The shapes a placemark's coordinates can take: no text, a text whose
\* first field is not a number, or n well-formed tuples.
CoordShapes == {<<"missing", 0>>, <<"malformed", 1>>}
                  \cup {<<"tuples", n>> : n \in 0..MaxTuples}

Placemark(i, named, shape) ==
    [name |-> IF named THEN ToString(i) ELSE None,
     hasCoordinates |-> shape[1] # "missing",
     coordinates |-> IF shape[1] = "missing" THEN <<>>
                     ELSE IF shape[1] = "malformed" THEN <<<<"x", ToString(i)>>>>
                     ELSE CoordText(i, shape[2])]

Documents ==
    {[i \in 1..Len(d) |-> Placemark(i, d[i][1], d[i][2])] :
        d \in SeqsUpTo(BOOLEAN \X CoordShapes, MaxPlacemarks)}

\* utils.py is not part of a run of the extractor.
UtilsIdle ==
    /\ gdf = Collection(<<>>)
    /\ area_threshold_m2 = 0
    /\ proximity_threshold_m = 0
    /\ smooth_strength_m = 0
    /\ fs_out = NotCalled
    /\ st_out = NotCalled

InitExtract ==
    /\ UtilsIdle
    /\ ClassifyIdle
    /\ ComposeIdle
    /\ kml \in Documents
    /\ segment_slice \in (0..MaxSlice) \X (0..MaxSlice)
    /\ save_csv \in BOOLEAN
    /\ kml_out = ExtractNotCalled

CallExtract ==
    /\ kml_out = ExtractNotCalled
    /\ kml_out' = extract_kml_segments(kml, segment_slice, save_csv)
    /\ UNCHANGED <<kml, segment_slice, save_csv>>
    /\ UNCHANGED <<utilsVars, classifyVars, composeVars>>

NextExtract == CallExtract

SpecExtract == InitExtract /\ [][NextExtract]_vars

\* --------------------------------------------------------------- classify
\* The tag tables classify declares (generate_map.py 163-172).
grass_tags == [natural |-> {"heath"},
               landuse |-> {"meadow", "farmland", "grass", "orchard"},
               landcover |-> {"grass", "crop"}]

forest_tags == [landuse |-> {"forest"},
                natural |-> {"wood", "tundra"}]

classify(r) ==
    IF r.natural \in forest_tags.natural THEN "forest"
    ELSE IF r.landuse \in forest_tags.landuse THEN "forest"
    ELSE IF r.natural \in grass_tags.natural THEN "grass"
    ELSE "other"

\* The tag values the OSM query asks for (generate_map.py 141-153); None
\* is a feature without the tag.
NaturalValues == {None, "wood", "grassland", "heath", "scrub", "wetland", "tundra"}
LanduseValues == {None, "forest", "meadow", "farmland", "grass", "orchard"}
LandcoverValues == {None, "grass", "crop"}

InitClassify ==
    /\ UtilsIdle
    /\ ExtractIdle
    /\ ComposeIdle
    /\ row \in [natural : NaturalValues, landuse : LanduseValues, landcover : LandcoverValues]
    /\ category = None

ApplyClassify ==
    /\ category = None
    /\ category' = classify(row)
    /\ UNCHANGED <<row, utilsVars, extractVars, composeVars>>

NextClassify == ApplyClassify

SpecClassify == InitClassify /\ [][NextClassify]_vars

\* --------------------------------------------------------------- composer
KML_FILEPATH == "res/whw.kml"
SEGMENTS_CSV_FILEPATH == "res/segments.csv"
POINTS_CSV_FILEPATH == "res/points.csv"
ELEVATION_FILEPATH == "res/whw.tif"
NATURE_FILEPATH == "res/cached_nature.gpkg"
LAKES_FILEPATH == "res/cached_lakes_scotland.gpkg"
OUTPUT_FILEPATH == "output/whw.pdf"

AllFiles == {KML_FILEPATH, SEGMENTS_CSV_FILEPATH, POINTS_CSV_FILEPATH,
             ELEVATION_FILEPATH, NATURE_FILEPATH, LAKES_FILEPATH, OUTPUT_FILEPATH}

CacheFile(l) == IF l = "nature" THEN NATURE_FILEPATH ELSE LAKES_FILEPATH

\* zorder arguments of the plotting calls
HILLSHADE_ZORDER == 2
NATURE_ZORDER == 6
OCEAN_ZORDER == 20
RIVERS_ZORDER == 5
LAKES_ZORDER == 10
ROUTE_ZORDER == 12
\* Mutant: the markers at the level of the route line.
POINTS_ZORDER_asRoute == ROUTE_ZORDER
POINTS_ZORDER == 20

Layer(kind, z) == [kind |-> kind, zorder |-> z]

\* if os.path.exists(path): read the cache; else: fetch
MustFetch(l) == CacheFile(l) \notin files

\* Mutant: the download is handed on without being saved.
AfterFetch_unsaved(l) == IF l = "nature" THEN "stylize_nature" ELSE "plot_lakes"

\* The statement after a successful fetch: gdf.to_file(path, driver="GPKG")
AfterFetch(l) == IF l = "nature" THEN "save_nature" ELSE "save_lakes"

AfterLoad(l) == IF l = "nature" THEN "stylize_nature" ELSE "plot_lakes"
LoadPc(l) == IF l = "nature" THEN "load_nature" ELSE "load_lakes"
SavePc(l) == IF l = "nature" THEN "save_nature" ELSE "save_lakes"

InitCompose ==
    /\ UtilsIdle
    /\ ExtractIdle
    /\ ClassifyIdle
    /\ pc = "route_tables"
    /\ files \in SUBSET AllFiles
    /\ fetches = [l \in Layers |-> 0]
    /\ fetch_failed = {}
    /\ cache_at_load = [l \in Layers |-> "unknown"]
    /\ canvas = <<>>
    /\ output_written = FALSE

Fail ==
    /\ pc' = "failed"
    /\ UNCHANGED <<files, fetches, fetch_failed, cache_at_load, canvas, output_written, utilsVars, extractVars, classifyVars>>

Goto(next) ==
    /\ pc' = next
    /\ UNCHANGED <<files, fetches, fetch_failed, cache_at_load, canvas, output_written, utilsVars, extractVars, classifyVars>>

Plot(layers, next) ==
    /\ pc' = next
    /\ canvas' = canvas \o layers
    /\ UNCHANGED <<files, fetches, fetch_failed, cache_at_load, output_written, utilsVars, extractVars, classifyVars>>

\* generate_map.py 63-72: the CSV tables are extracted from the KML unless
\* both exist, then read.
LoadRouteTables ==
    /\ pc = "route_tables"
    /\ SEGMENTS_CSV_FILEPATH \in files /\ POINTS_CSV_FILEPATH \in files
    /\ Goto("hillshade")

ExtractRouteTables ==
    /\ pc = "route_tables"
    /\ ~(SEGMENTS_CSV_FILEPATH \in files /\ POINTS_CSV_FILEPATH \in files)
    /\ IF KML_FILEPATH \in files
       THEN \/ /\ files' = files \cup {SEGMENTS_CSV_FILEPATH, POINTS_CSV_FILEPATH}
               /\ pc' = "hillshade"
               /\ UNCHANGED <<fetches, fetch_failed, cache_at_load, canvas, output_written, utilsVars, extractVars, classifyVars>>
            \/ Fail    \* the KML does not parse
       ELSE Fail       \* ET.parse: no such file

\* generate_map.py 106-130
RenderHillshade ==
    /\ pc = "hillshade"
    /\ IF ELEVATION_FILEPATH \in files
       THEN Plot(<<Layer("hillshade", HILLSHADE_ZORDER)>>, "load_nature")
       ELSE Fail

\* generate_map.py 136-138 and 213-215
LoadCached(l) ==
    /\ pc = LoadPc(l)
    /\ ~MustFetch(l)
    /\ cache_at_load' = [cache_at_load EXCEPT ![l] =
                            IF CacheFile(l) \in files THEN "present" ELSE "absent"]
    /\ pc' = AfterLoad(l)
    /\ UNCHANGED <<files, fetches, fetch_failed, canvas, output_written, utilsVars, extractVars, classifyVars>>

\* generate_map.py 155-157 and 218-230: ox.features_from_point returns or
\* raises.
Fetch(l) ==
    /\ pc = LoadPc(l)
    /\ MustFetch(l)
    /\ cache_at_load' = [cache_at_load EXCEPT ![l] =
                            IF CacheFile(l) \in files THEN "present" ELSE "absent"]
    /\ fetches' = [fetches EXCEPT ![l] = @ + 1]
    /\ \/ /\ pc' = AfterFetch(l)
          /\ UNCHANGED fetch_failed
       \/ /\ pc' = "failed"
          /\ fetch_failed' = fetch_failed \cup {l}
    /\ UNCHANGED <<files, canvas, output_written, utilsVars, extractVars, classifyVars>>

\* generate_map.py 158 and 231
SaveCache(l) ==
    /\ pc = SavePc(l)
    /\ files' = files \cup {CacheFile(l)}
    /\ pc' = AfterLoad(l)
    /\ UNCHANGED <<fetches, fetch_failed, cache_at_load, canvas, output_written, utilsVars, extractVars, classifyVars>>

\* generate_map.py 184-204: classify, stylize_natural_geometries, then one
\* plot per category of the result that has a colour.  cats is the set of
\* categories of the rows stylize returns; stylize raises when it has no
\* row to return.
StylizeAndPlotNature ==
    /\ pc = "stylize_nature"
    /\ \E cats \in SUBSET {"forest", "grass"} :
          IF cats = {}
          THEN Fail
          ELSE Plot(SelectSeq(<<Layer("forest", NATURE_ZORDER), Layer("grass", NATURE_ZORDER)>>,
                              LAMBDA y : y.kind \in cats),
                    "ocean")

\* generate_map.py 210
AddOcean ==
    /\ pc = "ocean"
    /\ Plot(<<Layer("ocean", OCEAN_ZORDER)>>, "rivers")

\* generate_map.py 211
AddRivers ==
    /\ pc = "rivers"
    /\ Plot(<<Layer("rivers", RIVERS_ZORDER)>>, "load_lakes")

\* generate_map.py 234-245: an empty collection draws nothing.
FilterAndPlotLakes ==
    /\ pc = "plot_lakes"
    /\ \E empty \in BOOLEAN :
          Plot(IF empty THEN <<>> ELSE <<Layer("lakes", LAKES_ZORDER)>>, "plot_points")

\* generate_map.py 250-267
PlotPoints ==
    /\ pc = "plot_points"
    /\ \E empty \in BOOLEAN :
          Plot(IF empty THEN <<>> ELSE <<Layer("points", POINTS_ZORDER)>>, "plot_route")

\* generate_map.py 269-271
PlotRoute ==
    /\ pc = "plot_route"
    /\ Plot(<<Layer("route", ROUTE_ZORDER)>>, "save_map")

\* generate_map.py 276-294
SaveMap ==
    /\ pc = "save_map"
    /\ pc' = "done"
    /\ files' = files \cup {OUTPUT_FILEPATH}
    /\ output_written' = TRUE
    /\ UNCHANGED <<fetches, fetch_failed, cache_at_load, canvas, utilsVars, extractVars, classifyVars>>

NextCompose ==
    \/ LoadRouteTables
    \/ ExtractRouteTables
    \/ RenderHillshade
    \/ \E l \in Layers : LoadCached(l)
    \/ \E l \in Layers : Fetch(l)
    \/ \E l \in Layers : SaveCache(l)
    \/ StylizeAndPlotNature
    \/ AddOcean
    \/ AddRivers
    \/ FilterAndPlotLakes
    \/ PlotPoints
    \/ PlotRoute
    \/ SaveMap

SpecCompose == InitCompose /\ [][NextCompose]_vars

\* Artists are drawn in ascending zorder, artists of equal zorder in the
\* order they were added: layer i is drawn below layer j.
DrawnBelow(i, j) ==
    \/ canvas[i].zorder < canvas[j].zorder
    \/ canvas[i].zorder = canvas[j].zorder /\ i < j

\* ================================================================ claims
\* Reference notions the claims are stated with, independent of the code.

\* Metric area of a source row, measured before any smoothing.
MetricArea(r) == Cardinality(Reproject(r.geometry, INPUT_CRS, WORKING_CRS))

Survives(r) == MetricArea(r) > area_threshold_m2

Ids(rows) == [i \in 1..Len(rows) |-> rows[i].id]

\* The surviving source geometries of category c.
Sources(c) == {gdf.rows[i].geometry : i \in {j \in 1..Len(gdf.rows) :
                    gdf.rows[j].category = c /\ Survives(gdf.rows[j])}}

\* All cells within distance d of a cell of g.
Within(g, d) == {x \in (0 - 2 * MaxBuffer - 1)..(MaxCoord + 2 * MaxBuffer + 1) :
                    \E y \in g : x - y <= d /\ y - x <= d}

\* Two shapes touch or overlap.
Touching(a, b) == \E x \in a, y \in b : x - y <= 1 /\ y - x <= 1

\* Number of maximal connected regions of a cell set.
Regions(g) == Cardinality({x \in g : (x - 1) \notin g})

RowsOf(out, c) == {i \in 1..Len(out.rows) : out.rows[i].category = c}

FilterDone == fs_out.status # "none"
StylizeDone == st_out.status # "none"

WithoutOther == [gdf EXCEPT !.rows = SelectSeq(gdf.rows, LAMBDA r : r.category # "other")]

\* C2: no row returned by stylize_natural_geometries has category "other",
\* and "other" features contribute no geometry to any row: every returned
\* region lies within the buffered surviving features of its own category,
\* and the result is the one the input without its "other" rows gives.
C2_OtherNeverEmitted ==
    StylizeDone =>
        /\ \A i \in 1..Len(st_out.rows) :
              /\ st_out.rows[i].category # "other"
              /\ st_out.rows[i].geometry \subseteq
                    Within(UNION Sources(st_out.rows[i].category),
                           proximity_threshold_m + smooth_strength_m)
        /\ st_out = stylize_natural_geometries(WithoutOther, area_threshold_m2,
                        proximity_threshold_m, smooth_strength_m,
                        SIMPLIFY_FACTOR_STYLIZE, INPUT_CRS, WORKING_CRS)

\* A surviving "other" feature overlaps a surviving forest feature and rows
\* were returned.
C2_Witness ==
    /\ StylizeDone
    /\ st_out.status = "ok"
    /\ \E a \in Sources("other"), b \in Sources("forest") :
          a \cap b # {} /\ ~(a \subseteq b)

\* C3: stylize_natural_geometries never merges across categories: each
\* returned row carries one category and its region is built from the
\* surviving features of that category only, so one forest and one grass
\* feature above the threshold give exactly two rows, one per category,
\* whether or not they touch or overlap.
C3_NoMergeAcrossCategories ==
    StylizeDone =>
        /\ \A i \in 1..Len(st_out.rows) :
              LET c == st_out.rows[i].category
                  g == st_out.rows[i].geometry
              IN  /\ c \in Categories
                  /\ g \subseteq Within(UNION Sources(c),
                                        proximity_threshold_m + smooth_strength_m)
                  /\ \E src \in Sources(c) : src \subseteq g
        /\ ( /\ Len(gdf.rows) = 2
             /\ gdf.rows[1].category = "forest" /\ Survives(gdf.rows[1])
             /\ gdf.rows[2].category = "grass" /\ Survives(gdf.rows[2]) )
           => /\ Len(st_out.rows) = 2
              /\ Cardinality(RowsOf(st_out, "forest")) = 1
              /\ Cardinality(RowsOf(st_out, "grass")) = 1

\* One forest and one grass feature above the threshold overlap, and two
\* rows were returned.
C3_Witness ==
    /\ StylizeDone
    /\ Len(gdf.rows) = 2
    /\ gdf.rows[1].category = "forest" /\ Survives(gdf.rows[1])
    /\ gdf.rows[2].category = "grass" /\ Survives(gdf.rows[2])
    /\ gdf.rows[1].geometry \cap gdf.rows[2].geometry # {}
    /\ gdf.rows[1].geometry # gdf.rows[2].geometry
    /\ Len(st_out.rows) = 2

\* The surviving features of category c, each buffered by the proximity
\* distance, fused.
ProximityFused(c) == UNION {Within(g, proximity_threshold_m) : g \in Sources(c)}

\* Two surviving features of one category whose proximity-buffered shapes
\* touch or overlap are part of the same returned row.
FusedTogether ==
    \A c \in Categories \ {"other"} :
        \A a \in Sources(c), b \in Sources(c) :
            Touching(Within(a, proximity_threshold_m), Within(b, proximity_threshold_m))
            => \E i \in RowsOf(st_out, c) :
                  a \subseteq st_out.rows[i].geometry /\ b \subseteq st_out.rows[i].geometry

C5_AlwaysReturnsCollection ==
    StylizeDone =>
        /\ st_out.status = "ok"
        /\ st_out.columns = {"category", "geometry"}
        /\ st_out.crs = INPUT_CRS

\* The input with the rows at or below the threshold removed.
OnlySurvivors == [gdf EXCEPT !.rows = SelectSeq(gdf.rows, Survives)]

ExtractDone == kml_out.status # "none"

\* Document positions of the placemarks with more than one tuple, in order.
RECURSIVE MultiPositions(_)
MultiPositions(n) ==
    IF n = 0 THEN <<>>
    ELSE IF Len(kml[n].coordinates) > 1
         THEN Append(MultiPositions(n - 1), n)
         ELSE MultiPositions(n - 1)

\* C6: a placemark is in the points table exactly when it has one coordinate
\* tuple, every returned segment has more than one, no placemark is in both
\* tables, and the returned segments are the multi-coordinate placemarks at
\* positions [segment_slice[0], segment_slice[1]) among the
\* multi-coordinate placemarks, in document order, coordinates in order.
C6_PointsAndSlicedSegments ==
    (ExtractDone /\ kml_out.status = "ok") =>
        LET multi == MultiPositions(Len(kml))
            hi == IF segment_slice[2] < Len(multi) THEN segment_slice[2] ELSE Len(multi)
            lo == segment_slice[1]
        IN  /\ \A i \in 1..Len(kml) :
                  (\E p \in 1..Len(kml_out.points) : kml_out.points[p].index = i)
                      <=> Len(kml[i].coordinates) = 1
            /\ \A s \in 1..Len(kml_out.segments) : Len(kml_out.segments[s].Coordinates) > 1
            /\ \A s \in 1..Len(kml_out.segments), p \in 1..Len(kml_out.points) :
                  kml_out.segments[s].index # kml_out.points[p].index
            /\ Len(kml_out.segments) = (IF hi > lo THEN hi - lo ELSE 0)
            /\ \A s \in 1..Len(kml_out.segments) :
                  /\ kml_out.segments[s].index = multi[lo + s]
                  /\ \A j \in 1..Len(kml_out.segments[s].Coordinates) :
                        LET parsed == kml_out.segments[s].Coordinates[j]
                            text == kml[multi[lo + s]].coordinates[j]
                        IN  /\ Len(parsed) = Len(text)
                            /\ \A k \in 1..Len(text) : ToString(parsed[k]) = text[k]
                  /\ Len(kml_out.segments[s].Coordinates) = Len(kml[multi[lo + s]].coordinates)

\* A document with a point between two paths was extracted with the slice
\* (1, 2): the second path alone is returned, the point is in the points
\* table.
C6_Witness ==
    /\ ExtractDone
    /\ kml_out.status = "ok"
    /\ Len(kml) = 3
    /\ Len(kml[1].coordinates) = 2
    /\ Len(kml[2].coordinates) = 1
    /\ Len(kml[3].coordinates) = 3
    /\ segment_slice = <<1, 2>>
    /\ Len(kml_out.segments) = 1
    /\ kml_out.segments[1].index = 3
    /\ Len(kml_out.points) = 1

\* ----------------------------------------------------------------- C7
\* C7: classify returns "forest" when natural is wood or tundra or landuse
\* is forest; otherwise "grass" when a declared grass tag matches (natural
\* heath, landuse meadow, farmland, grass or orchard, landcover grass or
\* crop); otherwise "other".
C7_ClassifyByDeclaredTables ==
    category # None =>
        category =
            IF row.natural \in {"wood", "tundra"} \/ row.landuse = "forest"
            THEN "forest"
            ELSE IF \/ row.natural = "heath"
                    \/ row.landuse \in {"meadow", "farmland", "grass", "orchard"}
                    \/ row.landcover \in {"grass", "crop"}
                 THEN "grass"
                 ELSE "other"

\* ----------------------------------------------------------------- C8
Kinds == {"hillshade", "forest", "grass", "ocean", "rivers", "lakes", "route", "points"}

\* The order the claim states: terrain shading < land cover < hydrology <
\* route line < point markers.
ClaimedRank(kind) ==
    CASE kind = "hillshade" -> 1
      [] kind \in {"forest", "grass"} -> 2
      [] kind \in {"ocean", "rivers", "lakes"} -> 3
      [] kind = "route" -> 4
      [] kind = "points" -> 5

\* The order the zorder arguments give.
DrawnRank(kind) ==
    CASE kind = "hillshade" -> 1
      [] kind = "rivers" -> 2
      [] kind \in {"forest", "grass"} -> 3
      [] kind = "lakes" -> 4
      [] kind = "route" -> 5
      [] kind = "ocean" -> 6
      [] kind = "points" -> 7

NothingAbovePoints ==
    \A i, j \in 1..Len(canvas) :
        (canvas[i].kind = "points" /\ i # j) => DrawnBelow(j, i)

\* C8 as stated: the layers are drawn in the order terrain shading < land
\* cover < hydrology (ocean, rivers, lakes) < route line < point markers,
\* and no layer is drawn above the point markers.
C8_Original ==
    /\ \A i, j \in 1..Len(canvas) :
          ClaimedRank(canvas[i].kind) < ClaimedRank(canvas[j].kind) => DrawnBelow(i, j)
    /\ NothingAbovePoints

\* C8 amended: the layers are drawn in the order hillshade < rivers < land
\* cover < lakes < route line < ocean < point markers: the hillshade is
\* below all other layers, the lakes are above the land cover and below the
\* route line, and no layer is drawn above the point markers.
C8_DrawingOrder ==
    /\ \A i, j \in 1..Len(canvas) :
          DrawnRank(canvas[i].kind) < DrawnRank(canvas[j].kind) => DrawnBelow(i, j)
    /\ NothingAbovePoints

\* The run ended with every layer on the canvas.
C8_Witness ==
    /\ pc = "done"
    /\ {canvas[i].kind : i \in 1..Len(canvas)} = Kinds

\* ----------------------------------------------------------------- C9
\* C9: for each cached layer the OSM fetch is attempted at most once, and
\* exactly when the cache file was absent when the layer was loaded; a
\* successful download is on disk at every statement after its save, also
\* when a later stage has failed; a failed fetch ends the run and the
\* output is not written.
C9_FetchOnceAndPersist ==
    \A l \in Layers :
        /\ fetches[l] <= 1
        /\ cache_at_load[l] = "unknown" => fetches[l] = 0
        /\ cache_at_load[l] # "unknown" =>
              (fetches[l] = 1 <=> cache_at_load[l] = "absent")
        /\ (fetches[l] = 1 /\ l \notin fetch_failed /\ pc # SavePc(l))
              => CacheFile(l) \in files
        /\ l \in fetch_failed =>
              /\ pc = "failed"
              /\ ~output_written
              /\ fetches[l] = 1

\* The nature layer was downloaded, and the run failed in the stage after
\* the save: the download is on disk.
C9_Witness ==
    /\ pc = "failed"
    /\ cache_at_load["nature"] = "absent"
    /\ fetches["nature"] = 1
    /\ "nature" \notin fetch_failed
    /\ NATURE_FILEPATH \in files
    /\ Len(canvas) = 1

====
